---- MODULE Spec2Model ----
(***************************************************************************)
(* The exchange adapter DeltaExchangeClient (backend, Python): its seven   *)
(* asynchronous operations over the blocking venue client, the worker      *)
(* dispatch of every venue call, and the is_connected flag.                *)
(*                                                                         *)
(* A caller task starts an operation; the code up to the first await       *)
(* submits one blocking venue call to the executor; the worker runs it     *)
(* (the venue answers with any value or throws); the coroutine resumes and *)
(* either finishes or, in get_ticker, submits the second venue call.       *)
(***************************************************************************)
EXTENDS Integers, Sequences, FiniteSets, TLC

VARIABLES is_connected, pc, call, request, future, responses, venue_calls,
          result, log, via, where, runs,
          now, page, localStorage, user, lastActivity, auth_due, idle_due,
          idle_since

\* the adapter and its calls in flight
adapter == <<is_connected, pc, call, request, future, responses, venue_calls,
             result, log, via, where, runs>>

\* the web client in one browser tab: the clock (in minutes), the route
\* shown, the browser's storage, AuthProvider's user state, Dashboard's
\* lastActivity state, the next firing times of the two interval timers, and
\* the time of the user's last input
session == <<now, page, localStorage, user, lastActivity, auth_due, idle_due,
             idle_since>>

vars == <<adapter, session>>

(***************************************************************************)
(* Bounds of the model.                                                    *)
(***************************************************************************)
\* longest list the venue returns
MaxLen == 2
\* order quantities range over -MaxQty/10 .. MaxQty/10 in steps of one tenth
MaxQty == 19
\* the session is followed for MaxTime minutes, and the user acts during
\* the first MaxActive of them
MaxTime == 250
MaxActive == 3

\* the caller tasks; Spec runs MainTask alone
Tasks == {"t1", "t2"}
MainTask == "t1"

(***************************************************************************)
(* Python values.  Every value is a record tagged with its type name.      *)
(***************************************************************************)
PyNone == [t |-> "NoneType"]
PyBool(b) == [t |-> "bool", b |-> b]
PyTrue == PyBool(TRUE)
PyFalse == PyBool(FALSE)
PyInt(n) == [t |-> "int", n |-> n]
PyStr(s) == [t |-> "str", s |-> s]
PyList(items) == [t |-> "list", items |-> items]
PyDict(d) == [t |-> "dict", d |-> d]
\* quantity as a float with a resolution of one tenth: tenths/10
PyFloat(tenths) == [t |-> "float", tenths |-> tenths]

\* no value yet (a slot of the model, not a Python value)
Unset == [t |-> "unset"]

\* bool(v)
Truthy(v) ==
  CASE v.t = "NoneType" -> FALSE
    [] v.t = "bool" -> v.b
    [] v.t = "int" -> v.n # 0
    [] v.t = "float" -> v.tenths # 0
    [] v.t = "str" -> v.s # ""
    [] v.t = "list" -> Len(v.items) > 0
    [] v.t = "dict" -> DOMAIN v.d # {}

\* faulty variant: round(v) instead of int(v): the nearest integer, a tie
\* going to the even one
PyRoundOf(v) ==
  IF v.t = "float"
    THEN LET a == IF v.tenths >= 0 THEN v.tenths ELSE 0 - v.tenths
             lo == a \div 10
             n == IF a % 10 > 5 \/ (a % 10 = 5 /\ lo % 2 = 1) THEN lo + 1 ELSE lo
         IN PyInt(IF v.tenths >= 0 THEN n ELSE 0 - n)
    ELSE v

\* int(v) of a float: the fractional part is discarded (towards zero)
PyIntOf(v) ==
  IF v.t = "float"
    THEN IF v.tenths >= 0 THEN PyInt(v.tenths \div 10)
                          ELSE PyInt(-((-v.tenths) \div 10))
    ELSE v

\* outcomes of evaluating Python code: a value, or a raised exception whose
\* str() is msg
Return(v) == [k |-> "return", v |-> v]
Raise(msg) == [k |-> "raise", v |-> PyStr(msg)]

\* str(e) of the AttributeError raised by v.get(...) when v is not a dict
NoGetAttr(v) == "'" \o v.t \o "' object has no attribute 'get'"
\* str(e) of the TypeError raised by iterating a value that is not iterable
NotIterable(v) == "'" \o v.t \o "' object is not iterable"

\* v.get(key, default) for a dict v
Get(v, key, default) == IF key \in DOMAIN v.d THEN v.d[key] ELSE default

\* isinstance(v, dict) and v.get('success', False)
IsSuccessDict(v) == v.t = "dict" /\ Truthy(Get(v, "success", PyFalse))

\* {'success': True, 'result': payload}
Success(payload) == PyDict([success |-> PyTrue, result |-> payload])
\* {'success': False, 'error': {'message': message}}
Failure(message) ==
  PyDict([success |-> PyFalse, error |-> PyDict([message |-> message])])

\* one logger call
LogLine(level, text, arg) == [level |-> level, text |-> text, arg |-> arg]


\* what one evaluation of a coroutine up to its next suspension yields:
\* k = "return" (v the returned value), "raise" (v the str() of the
\* exception) or "call" (v the venue call submitted to the executor);
\* connect says whether self.is_connected = True was executed; log holds the
\* logger calls made
Step(k, v, connect, lines) ==
  [k |-> k, v |-> v, connect |-> connect, log |-> lines]

\* a venue outcome or a Python evaluation outcome lifted to a step
Lift(out) == Step(out.k, out.v, FALSE, <<>>)

(***************************************************************************)
(* The venue calls (requests), as the executor receives them.              *)
(***************************************************************************)
\* self.client.get_assets(auth=True) on a worker
_get_assets_auth == [ep |-> "get_assets", auth |-> TRUE]

\* self.client.get_balances(asset_id) on a worker
_get_balances(asset_id) == [ep |-> "get_balances", asset_id |-> asset_id]

\* self.client.get_assets(auth=False) on a worker
_sync_get_assets == [ep |-> "get_assets", auth |-> FALSE]

\* self.client.place_order(product_id, side, order_type, size=int(quantity),
\* limit_price=price) on a worker
_sync_place_order(product_id, side, quantity, price, order_type) ==
  [ep |-> "place_order", product_id |-> product_id, side |-> side,
   order_type |-> order_type, size |-> PyIntOf(quantity),
   limit_price |-> price]

\* self.client.get_live_orders(product_id=product_id, state=state)
_sync_get_orders(product_id, state) ==
  [ep |-> "get_live_orders", product_id |-> product_id, state |-> state]

\* self.client.get_ticker(product_id=product_id)
_sync_get_ticker(product_id) == [ep |-> "get_ticker", product_id |-> product_id]

(***************************************************************************)
(* test_connection                                                         *)
(***************************************************************************)
\* faulty variant: the length check of the list branch is dropped
test_connection_any_list(out) ==
  IF out.k = "raise" THEN Lift(out)
  ELSE LET response == out.v IN
    IF response.t = "list" \/ IsSuccessDict(response)
      THEN Step("return", PyTrue, TRUE,
             <<LogLine("info", "Successfully connected to Delta Exchange", PyNone)>>)
    ELSE Step("return", PyFalse, FALSE,
             <<LogLine("error", "Failed to connect to Delta Exchange: ", response)>>)

\* faulty variant: the envelope branch also asks for a non-empty result
test_connection_nonempty_result(out) ==
  IF out.k = "raise" THEN Lift(out)
  ELSE LET response == out.v IN
    IF (response.t = "list" /\ Len(response.items) > 0)
       \/ (IsSuccessDict(response)
             /\ Truthy(Get(response, "result", PyList(<<>>))))
      THEN Step("return", PyTrue, TRUE,
             <<LogLine("info", "Successfully connected to Delta Exchange", PyNone)>>)
    ELSE Step("return", PyFalse, FALSE,
             <<LogLine("error", "Failed to connect to Delta Exchange: ", response)>>)

\* faulty variant: self.is_connected = True is executed before the response is
\* looked at
test_connection_flag_first(out) ==
  IF out.k = "raise" THEN Lift(out)
  ELSE LET response == out.v IN
    IF (response.t = "list" /\ Len(response.items) > 0)
       \/ IsSuccessDict(response)
      THEN Step("return", PyTrue, TRUE,
             <<LogLine("info", "Successfully connected to Delta Exchange", PyNone)>>)
    ELSE Step("return", PyFalse, TRUE,
             <<LogLine("error", "Failed to connect to Delta Exchange: ", response)>>)

\* faulty variant: the list branch returns True without assigning
\* self.is_connected
test_connection_list_no_flag(out) ==
  IF out.k = "raise" THEN Lift(out)
  ELSE LET response == out.v IN
    IF response.t = "list" /\ Len(response.items) > 0
      THEN Step("return", PyTrue, FALSE,
             <<LogLine("info", "Successfully connected to Delta Exchange", PyNone)>>)
    ELSE IF IsSuccessDict(response)
      THEN Step("return", PyTrue, TRUE,
             <<LogLine("info", "Successfully connected to Delta Exchange", PyNone)>>)
    ELSE Step("return", PyFalse, FALSE,
             <<LogLine("error", "Failed to connect to Delta Exchange: ", response)>>)

\* the try block of test_connection, given the outcome of the awaited call
test_connection_try(out) ==
  IF out.k = "raise" THEN Lift(out)
  ELSE LET response == out.v IN
    IF response.t = "list" /\ Len(response.items) > 0
      THEN Step("return", PyTrue, TRUE,
             <<LogLine("info", "Successfully connected to Delta Exchange", PyNone)>>)
    ELSE IF IsSuccessDict(response)
      THEN Step("return", PyTrue, TRUE,
             <<LogLine("info", "Successfully connected to Delta Exchange", PyNone)>>)
    ELSE Step("return", PyFalse, FALSE,
             <<LogLine("error", "Failed to connect to Delta Exchange: ", response)>>)

\* faulty variant: the except handler returns False without logging the error
test_connection_silent(out) ==
  LET body == test_connection_try(out) IN
    IF body.k = "raise" THEN Step("return", PyFalse, FALSE, body.log)
    ELSE body

\* test_connection: the try block and its except Exception handler
test_connection(out) ==
  LET body == test_connection_try(out) IN
    IF body.k = "raise"
      THEN Step("return", PyFalse, FALSE, body.log \o
             <<LogLine("error", "Error testing Delta Exchange connection: ", body.v)>>)
      ELSE body

(***************************************************************************)
(* get_balance                                                             *)
(***************************************************************************)
\* the items a for loop over v visits, for the iterable types
RECURSIVE KeyList(_)
KeyList(keys) ==
  IF keys = {} THEN <<>>
  ELSE LET key == CHOOSE x \in keys : TRUE IN
         <<PyStr(key)>> \o KeyList(keys \ {key})

IsIterable(v) == v.t \in {"list", "dict", "str"}

Items(v) ==
  CASE v.t = "list" -> v.items
    [] v.t = "dict" -> KeyList(DOMAIN v.d)
    [] v.t = "str" -> [i \in 1..Len(v.s) |-> PyStr(SubSeq(v.s, i, i))]

\* faulty variant: the loop stores the venue's whole entry under its symbol
RECURSIVE balance_loop_whole_entry(_, _, _)
balance_loop_whole_entry(balances, i, acc) ==
  IF i > Len(balances) THEN Return(PyDict(acc))
  ELSE LET balance == balances[i] IN
    IF balance.t # "dict" THEN Raise(NoGetAttr(balance))
    ELSE LET key == Get(balance, "asset_symbol", PyStr("unknown")) IN
      IF key.t \in {"list", "dict"}
        THEN Raise("unhashable type: '" \o key.t \o "'")
        ELSE balance_loop_whole_entry(balances, i + 1,
               [s \in DOMAIN acc \cup {key.s} |->
                  IF s = key.s THEN balance ELSE acc[s]])

\* faulty variant: a key already in balance_dict is kept, so the first entry
\* of a symbol wins
RECURSIVE balance_loop_first_wins(_, _, _)
balance_loop_first_wins(balances, i, acc) ==
  IF i > Len(balances) THEN Return(PyDict(acc))
  ELSE LET balance == balances[i] IN
    IF balance.t # "dict" THEN Raise(NoGetAttr(balance))
    ELSE LET key == Get(balance, "asset_symbol", PyStr("unknown"))
             entry == PyDict(
               [balance |-> Get(balance, "balance", PyInt(0)),
                reserved_balance |-> Get(balance, "reserved_balance", PyInt(0)),
                available_balance |-> Get(balance, "available_balance", PyInt(0))])
         IN IF key.t \in {"list", "dict"}
              THEN Raise("unhashable type: '" \o key.t \o "'")
              ELSE balance_loop_first_wins(balances, i + 1,
                     [s \in DOMAIN acc \cup {key.s} |->
                        IF s \in DOMAIN acc THEN acc[s] ELSE entry])

\* the for loop of get_balance from item i on; acc is balance_dict so far
RECURSIVE balance_loop(_, _, _)
balance_loop(balances, i, acc) ==
  IF i > Len(balances) THEN Return(PyDict(acc))
  ELSE LET balance == balances[i] IN
    IF balance.t # "dict" THEN Raise(NoGetAttr(balance))
    ELSE LET key == Get(balance, "asset_symbol", PyStr("unknown"))
             entry == PyDict(
               [balance |-> Get(balance, "balance", PyInt(0)),
                reserved_balance |-> Get(balance, "reserved_balance", PyInt(0)),
                available_balance |-> Get(balance, "available_balance", PyInt(0))])
         IN IF key.t \in {"list", "dict"}
              THEN Raise("unhashable type: '" \o key.t \o "'")
              ELSE balance_loop(balances, i + 1,
                     [s \in DOMAIN acc \cup {key.s} |->
                        IF s = key.s THEN entry ELSE acc[s]])

\* faulty variant: a failure envelope is rebuilt from its message instead of being
\* returned as it is
get_balance_rewrap(out) ==
  IF out.k = "raise" THEN Lift(out)
  ELSE LET response == out.v IN
    IF response.t # "dict" THEN Lift(Raise(NoGetAttr(response)))
    ELSE IF Truthy(Get(response, "success", PyFalse))
      THEN LET balances == Get(response, "result", PyList(<<>>)) IN
        IF ~IsIterable(balances) THEN Lift(Raise(NotIterable(balances)))
        ELSE LET loop == balance_loop(Items(balances), 1, <<>>) IN
          IF loop.k = "raise" THEN Lift(loop)
          ELSE Lift(Return(Success(loop.v)))
      ELSE Lift(Return(Failure(
             Get(Get(response, "error", PyDict(<<>>)), "message", PyNone))))

\* the try block of get_balance
get_balance_try(out) ==
  IF out.k = "raise" THEN Lift(out)
  ELSE LET response == out.v IN
    IF response.t # "dict" THEN Lift(Raise(NoGetAttr(response)))
    ELSE IF Truthy(Get(response, "success", PyFalse))
      THEN LET balances == Get(response, "result", PyList(<<>>)) IN
        IF ~IsIterable(balances) THEN Lift(Raise(NotIterable(balances)))
        ELSE LET loop == balance_loop(Items(balances), 1, <<>>) IN
          IF loop.k = "raise" THEN Lift(loop)
          ELSE Lift(Return(Success(loop.v)))
      ELSE Lift(Return(response))

\* faulty variant: the except handler puts the text directly under 'error'
get_balance_flat_error(out) ==
  LET body == get_balance_try(out) IN
    IF body.k = "raise"
      THEN Step("return", PyDict([success |-> PyFalse, error |-> body.v]),
                FALSE, body.log \o
             <<LogLine("error", "Error getting balance: ", body.v)>>)
      ELSE body

\* get_balance: the try block and its except Exception handler
get_balance(out) ==
  LET body == get_balance_try(out) IN
    IF body.k = "raise"
      THEN Step("return", Failure(body.v), FALSE, body.log \o
             <<LogLine("error", "Error getting balance: ", body.v)>>)
      ELSE body

(***************************************************************************)
(* get_products                                                            *)
(***************************************************************************)
\* faulty variant: the list branch asks for a non-empty list, as
\* test_connection does
get_products_nonempty_only(out) ==
  IF out.k = "raise" THEN Lift(out)
  ELSE LET response == out.v IN
    IF response.t = "list" /\ Len(response.items) > 0
      THEN Lift(Return(Success(response)))
    ELSE IF IsSuccessDict(response)
      THEN Lift(Return(Success(Get(response, "result", PyList(<<>>)))))
    ELSE Lift(Return(Failure(PyStr("Unable to get products"))))

\* faulty variant: a dict without a true success flag is returned as it is,
\* as the other operations do
get_products_pass_through(out) ==
  IF out.k = "raise" THEN Lift(out)
  ELSE LET response == out.v IN
    IF response.t = "list" THEN Lift(Return(Success(response)))
    ELSE IF IsSuccessDict(response)
      THEN Lift(Return(Success(Get(response, "result", PyList(<<>>)))))
    ELSE IF response.t = "dict" THEN Lift(Return(response))
    ELSE Lift(Return(Failure(PyStr("Unable to get products"))))

\* the try block of get_products
get_products_try(out) ==
  IF out.k = "raise" THEN Lift(out)
  ELSE LET response == out.v IN
    IF response.t = "list" THEN Lift(Return(Success(response)))
    ELSE IF IsSuccessDict(response)
      THEN Lift(Return(Success(Get(response, "result", PyList(<<>>)))))
    ELSE Lift(Return(Failure(PyStr("Unable to get products"))))

\* get_products: the try block and its except Exception handler
get_products(out) ==
  LET body == get_products_try(out) IN
    IF body.k = "raise"
      THEN Step("return", Failure(body.v), FALSE, body.log \o
             <<LogLine("error", "Error getting products: ", body.v)>>)
      ELSE body

(***************************************************************************)
(* place_order                                                             *)
(***************************************************************************)
\* faulty variant: a response without a true success flag is returned as it
\* is only when it carries an error field, and is replaced by the adapter's
\* own Failure otherwise
place_order_needs_error(out) ==
  IF out.k = "raise" THEN Lift(out)
  ELSE LET response == out.v IN
    IF response.t # "dict" THEN Lift(Raise(NoGetAttr(response)))
    ELSE IF Truthy(Get(response, "success", PyFalse))
      THEN Lift(Return(Success(Get(response, "result", PyDict(<<>>)))))
    ELSE IF "error" \in DOMAIN response.d
      THEN Lift(Return(response))
      ELSE Lift(Return(Failure(PyStr("Order rejected"))))

\* the try block of place_order after the awaited venue call
place_order_try(out) ==
  IF out.k = "raise" THEN Lift(out)
  ELSE LET response == out.v IN
    IF response.t # "dict" THEN Lift(Raise(NoGetAttr(response)))
    ELSE IF Truthy(Get(response, "success", PyFalse))
      THEN Lift(Return(Success(Get(response, "result", PyDict(<<>>)))))
      ELSE Lift(Return(response))

\* place_order: the try block and its except Exception handler
place_order(out) ==
  LET body == place_order_try(out) IN
    IF body.k = "raise"
      THEN Step("return", Failure(body.v), FALSE, body.log \o
             <<LogLine("error", "Error placing order: ", body.v)>>)
      ELSE body

(***************************************************************************)
(* get_orders                                                              *)
(***************************************************************************)
\* faulty variant: a failure envelope is rebuilt from its message instead of being
\* returned as it is
get_orders_rewrap(out) ==
  IF out.k = "raise" THEN Lift(out)
  ELSE LET response == out.v IN
    IF response.t # "dict" THEN Lift(Raise(NoGetAttr(response)))
    ELSE IF Truthy(Get(response, "success", PyFalse))
      THEN Lift(Return(Success(Get(response, "result", PyList(<<>>)))))
      ELSE Lift(Return(Failure(
             Get(Get(response, "error", PyDict(<<>>)), "message", PyNone))))

\* the try block of get_orders after the awaited venue call
get_orders_try(out) ==
  IF out.k = "raise" THEN Lift(out)
  ELSE LET response == out.v IN
    IF response.t # "dict" THEN Lift(Raise(NoGetAttr(response)))
    ELSE IF Truthy(Get(response, "success", PyFalse))
      THEN Lift(Return(Success(Get(response, "result", PyList(<<>>)))))
      ELSE Lift(Return(response))

\* faulty variant: the except handler submits the venue call again instead of
\* returning the failure
get_orders_retry(out) ==
  LET body == get_orders_try(out) IN
    IF body.k = "raise"
      THEN Step("call", _sync_get_orders(PyNone, "open"), FALSE, body.log \o
             <<LogLine("error", "Error getting orders: ", body.v)>>)
      ELSE body

\* faulty variant: get_orders without its except handler
get_orders_unguarded(out) == get_orders_try(out)

\* get_orders: the try block and its except Exception handler
get_orders(out) ==
  LET body == get_orders_try(out) IN
    IF body.k = "raise"
      THEN Step("return", Failure(body.v), FALSE, body.log \o
             <<LogLine("error", "Error getting orders: ", body.v)>>)
      ELSE body

(***************************************************************************)
(* get_ticker                                                              *)
(***************************************************************************)
\* faulty variant: the loop has no break, so the last matching product wins
RECURSIVE product_scan_last(_, _, _)
product_scan_last(products, symbol, i) ==
  IF i > Len(products) THEN Return(PyNone)
  ELSE LET product == products[i] IN
    IF product.t # "dict" THEN Raise(NoGetAttr(product))
    ELSE LET later == product_scan_last(products, symbol, i + 1) IN
      IF later.k = "raise" THEN later
      ELSE IF Get(product, "symbol", PyNone) = PyStr(symbol)
                /\ \A j \in (i + 1)..Len(products) :
                     Get(products[j], "symbol", PyNone) # PyStr(symbol)
        THEN Return(Get(product, "id", PyNone))
        ELSE later

\* faulty variant: a matching product without an id is passed over and the
\* scan goes on to the next product
RECURSIVE product_scan_skip_idless(_, _, _)
product_scan_skip_idless(products, symbol, i) ==
  IF i > Len(products) THEN Return(PyNone)
  ELSE LET product == products[i] IN
    IF product.t # "dict" THEN Raise(NoGetAttr(product))
    ELSE IF Get(product, "symbol", PyNone) = PyStr(symbol)
              /\ Get(product, "id", PyNone) # PyNone
      THEN Return(Get(product, "id", PyNone))
      ELSE product_scan_skip_idless(products, symbol, i + 1)

\* the for loop of get_ticker from item i on: the id of the first product
\* whose symbol equals symbol (None when it has no id), None when no product
\* matches
RECURSIVE product_scan(_, _, _)
product_scan(products, symbol, i) ==
  IF i > Len(products) THEN Return(PyNone)
  ELSE LET product == products[i] IN
    IF product.t # "dict" THEN Raise(NoGetAttr(product))
    ELSE IF Get(product, "symbol", PyNone) = PyStr(symbol)
      THEN Return(Get(product, "id", PyNone))
      ELSE product_scan(products, symbol, i + 1)

\* the part of get_ticker's try block after the awaited ticker call
ticker_response(out, lines) ==
  IF out.k = "raise" THEN Step("raise", out.v, FALSE, lines)
  ELSE LET response == out.v IN
    IF response.t # "dict"
      THEN Step("raise", PyStr(NoGetAttr(response)), FALSE, lines)
    ELSE IF Truthy(Get(response, "success", PyFalse))
      THEN Step("return", Success(Get(response, "result", PyDict(<<>>))),
                FALSE, lines)
      ELSE Step("return", response, FALSE, lines)

\* faulty variant: the product_id is None check is missing, the ticker is
\* fetched whatever the scan found
get_ticker_no_guard(symbol, outs) ==
  LET listing == get_products(outs[1]) IN
    IF listing.k = "raise" THEN listing
    ELSE LET products_response == listing.v IN
      IF ~Truthy(Get(products_response, "success", PyFalse))
        THEN Step("return", products_response, FALSE, listing.log)
      ELSE LET products == Get(products_response, "result", PyList(<<>>)) IN
        IF ~IsIterable(products)
          THEN Step("raise", PyStr(NotIterable(products)), FALSE, listing.log)
        ELSE LET scan == product_scan(Items(products), symbol, 1) IN
          IF scan.k = "raise"
            THEN Step("raise", scan.v, FALSE, listing.log)
          ELSE IF Len(outs) = 1
            THEN Step("call", _sync_get_ticker(scan.v), FALSE, listing.log)
          ELSE ticker_response(outs[2], listing.log)

\* faulty variant: the success check on the listing is missing, a failed
\* listing is scanned like a catalogue
get_ticker_unchecked_listing(symbol, outs) ==
  LET listing == get_products(outs[1]) IN
    IF listing.k = "raise" THEN listing
    ELSE LET products_response == listing.v IN
      LET products == Get(products_response, "result", PyList(<<>>)) IN
        IF ~IsIterable(products)
          THEN Step("raise", PyStr(NotIterable(products)), FALSE, listing.log)
        ELSE LET scan == product_scan(Items(products), symbol, 1) IN
          IF scan.k = "raise"
            THEN Step("raise", scan.v, FALSE, listing.log)
          ELSE IF scan.v = PyNone
            THEN Step("return",
                   Failure(PyStr("Product not found for symbol: " \o symbol)),
                   FALSE, listing.log)
          ELSE IF Len(outs) = 1
            THEN Step("call", _sync_get_ticker(scan.v), FALSE, listing.log)
          ELSE ticker_response(outs[2], listing.log)

\* the try block of get_ticker, given the outcomes of the venue calls awaited
\* so far (the asset listing, then the ticker)
get_ticker_try(symbol, outs) ==
  LET listing == get_products(outs[1]) IN
    IF listing.k = "raise" THEN listing
    ELSE LET products_response == listing.v IN
      IF ~Truthy(Get(products_response, "success", PyFalse))
        THEN Step("return", products_response, FALSE, listing.log)
      ELSE LET products == Get(products_response, "result", PyList(<<>>)) IN
        IF ~IsIterable(products)
          THEN Step("raise", PyStr(NotIterable(products)), FALSE, listing.log)
        ELSE LET scan == product_scan(Items(products), symbol, 1) IN
          IF scan.k = "raise"
            THEN Step("raise", scan.v, FALSE, listing.log)
          ELSE IF scan.v = PyNone
            THEN Step("return",
                   Failure(PyStr("Product not found for symbol: " \o symbol)),
                   FALSE, listing.log)
          ELSE IF Len(outs) = 1
            THEN Step("call", _sync_get_ticker(scan.v), FALSE, listing.log)
          ELSE ticker_response(outs[2], listing.log)

\* faulty variant: the except handler reports a fixed text instead of str(e)
get_ticker_fixed_text(symbol, outs) ==
  LET body == get_ticker_try(symbol, outs) IN
    IF body.k = "raise"
      THEN Step("return", Failure(PyStr("Error getting ticker")), FALSE,
                body.log \o
             <<LogLine("error", "Error getting ticker: ", body.v)>>)
      ELSE body

\* get_ticker: the try block and its except Exception handler
get_ticker(symbol, outs) ==
  LET body == get_ticker_try(symbol, outs) IN
    IF body.k = "raise"
      THEN Step("return", Failure(body.v), FALSE, body.log \o
             <<LogLine("error", "Error getting ticker: ", body.v)>>)
      ELSE body

(***************************************************************************)
(* get_account_info                                                        *)
(***************************************************************************)
\* faulty variant: get_account_info hands the response to get_balance's try
\* block, building the symbol mapping
get_account_info_mapped(out) == get_balance_try(out)

\* the try block of get_account_info after the awaited venue call
get_account_info_try(out) ==
  IF out.k = "raise" THEN Lift(out)
  ELSE LET response == out.v IN
    IF response.t # "dict" THEN Lift(Raise(NoGetAttr(response)))
    ELSE IF Truthy(Get(response, "success", PyFalse))
      THEN Lift(Return(Success(Get(response, "result", PyDict(<<>>)))))
      ELSE Lift(Return(response))

\* get_account_info: the try block and its except Exception handler
get_account_info(out) ==
  LET body == get_account_info_try(out) IN
    IF body.k = "raise"
      THEN Step("return", Failure(body.v), FALSE, body.log \o
             <<LogLine("error", "Error getting account info: ", body.v)>>)
      ELSE body

(***************************************************************************)
(* The blocking-call bridge.                                               *)
(***************************************************************************)
\* faulty variant: the blocking call is made in the coroutine itself, on the
\* thread of the event loop
call_on_loop == "loop"

\* loop.run_in_executor(None, f): the blocking call f runs on a worker thread
\* of the loop's default executor, the coroutine awaits its future
run_in_executor == "worker"

\* faulty variant: cancelling the awaiting coroutine also ends the call the
\* worker thread is executing
cancel_running_aborts(req) == Unset

\* the awaiting coroutine is cancelled while a worker thread executes the
\* request function of req: the function was handed to the executor without
\* any means of interruption, so the call stays in flight
cancel_running(req) == req

\* what the calling thread of a *_sync wrapper can find: a running event
\* loop, a loop that is not running, a closed loop, or no current loop
Contexts == {"running", "idle", "closed", "none"}

\* asyncio.get_event_loop() in a thread whose loop state is ctx
get_event_loop(ctx) ==
  IF ctx = "none" THEN Raise("There is no current event loop") ELSE Return(ctx)

\* asyncio.run(coro) in thread th; running says whether th runs a loop. The
\* coroutine is started once on a fresh loop of th
asyncio_run(th, running) ==
  IF running
    THEN [k |-> "raise",
          v |-> PyStr("asyncio.run() cannot be called from a running event loop"),
          starts |-> 0]
    ELSE [k |-> "run", on |-> th, starts |-> 1]

\* loop.run_until_complete(coro) in the calling thread, loop state ctx
run_until_complete(ctx) ==
  CASE ctx = "running" ->
         [k |-> "raise", v |-> PyStr("This event loop is already running"),
          starts |-> 0]
    [] ctx = "closed" ->
         [k |-> "raise", v |-> PyStr("Event loop is closed"), starts |-> 0]
    [] ctx = "idle" -> [k |-> "run", on |-> "caller", starts |-> 1]

\* faulty variant: no loop.is_running() branch, the loop found is always
\* driven directly
_run_sync_no_check(ctx) ==
  LET loop == get_event_loop(ctx) IN
    IF loop.k = "raise" THEN asyncio_run("caller", FALSE)
    ELSE LET direct == run_until_complete(loop.v) IN
      IF direct.k = "raise" THEN asyncio_run("caller", loop.v = "running")
      ELSE direct

\* faulty variant: the coroutine is always handed to a separate thread
_run_sync_always_thread(ctx) == asyncio_run("thread", FALSE)

\* return future.result() / return loop.run_until_complete(coro) /
\* return asyncio.run(coro): the wrapper returns what the coroutine returned
sync_return(v) == v

\* _run_sync up to the point where the coroutine runs: where it runs ("thread":
\* a fresh loop in a separate thread whose result the caller waits for;
\* "caller": the calling thread) and how often it is started, or the error
\* that escapes
_run_sync(ctx) ==
  LET loop == get_event_loop(ctx) IN
    IF loop.k = "raise" THEN asyncio_run("caller", FALSE)
    ELSE IF loop.v = "running" THEN asyncio_run("thread", FALSE)
    ELSE LET direct == run_until_complete(loop.v) IN
      IF direct.k = "raise" THEN asyncio_run("caller", FALSE)
      ELSE direct

(***************************************************************************)
(* What the venue client can answer.  The client is an external library:   *)
(* it returns a bare list, an envelope, something else, or throws.         *)
(***************************************************************************)
SeqsUpTo(S, n) == UNION {[1..k -> S] : k \in 0..n}

\* the venue's envelope {success: true, result: r}
Envelope(r) == PyDict([success |-> PyTrue, result |-> r])

\* the venue's envelope {success: false, error: {code, message}}
VenueError ==
  PyDict([success |-> PyFalse,
          error |-> PyDict([code |-> PyStr("invalid_asset"),
                            message |-> PyStr("bad asset")])])

\* assets / products as the venue lists them
Product(id, symbol) == PyDict([id |-> PyInt(id), symbol |-> PyStr(symbol)])
Products ==
  {Product(1, "BTCUSD"), Product(2, "BTCUSD"), Product(3, "ETHUSD"),
   PyDict([symbol |-> PyStr("BTCUSD")])}

\* balance entries as the venue lists them
Balance(symbol, balance, reserved, available) ==
  PyDict([asset_symbol |-> PyStr(symbol), asset_id |-> PyInt(1),
          balance |-> PyInt(balance), reserved_balance |-> PyInt(reserved),
          available_balance |-> PyInt(available)])
Balances ==
  {Balance("BTC", 3, 1, 2), Balance("BTC", 9, 4, 5), Balance("ETH", 8, 2, 6),
   PyDict([balance |-> PyInt(7), available_balance |-> PyInt(7)])}

Order == PyDict([id |-> PyInt(77), state |-> PyStr("open")])
Ticker == PyDict([symbol |-> PyStr("BTCUSD"), close |-> PyInt(100)])

\* answers every endpoint can give, whatever it was asked
CommonResponses ==
  {VenueError, PyDict([success |-> PyTrue]), Envelope(PyNone),
   PyDict([status |-> PyStr("ok")]), PyNone, PyList(<<>>),
   PyDict([success |-> PyFalse]),
   PyDict([success |-> PyFalse, result |-> PyList(<<>>)])}

VenueResponses(ep) ==
  CommonResponses \cup
  CASE ep = "get_assets" ->
         {PyList(l) : l \in SeqsUpTo(Products, MaxLen)}
         \cup {Envelope(PyList(l)) : l \in SeqsUpTo(Products, MaxLen)}
    [] ep = "get_balances" ->
         {Envelope(PyList(l)) : l \in SeqsUpTo(Balances, MaxLen)}
    [] ep = "place_order" -> {Envelope(Order)}
    [] ep = "get_live_orders" ->
         {Envelope(PyList(l)) : l \in SeqsUpTo({Order}, MaxLen)}
    [] ep = "get_ticker" -> {Envelope(Ticker)}

\* str() of the exceptions the venue client throws
Thrown == {"Connection timed out"}

\* the outcomes of one venue call on a worker
VenueOutcomes(req) ==
  {Raise(m) : m \in Thrown} \cup {Return(v) : v \in VenueResponses(req.ep)}

(***************************************************************************)
(* The calls a caller can make.                                            *)
(***************************************************************************)
Quantities == {PyFloat(h) : h \in (0 - MaxQty)..MaxQty}

Calls ==
  {[op |-> "test_connection"], [op |-> "get_products"],
   [op |-> "get_account_info"]}
  \cup {[op |-> "get_balance", asset_id |-> a] : a \in {"1", "2"}}
  \cup {[op |-> "place_order", product_id |-> PyInt(1), side |-> "buy",
         quantity |-> q, price |-> PyInt(100), order_type |-> "limit_order"]
          : q \in Quantities}
  \cup {[op |-> "get_orders", product_id |-> PyNone, state |-> "open"]}
  \cup {[op |-> "get_ticker", symbol |-> s] : s \in {"BTCUSD", "XYZ"}}

\* the venue call the coroutine of call c submits before its first await
FirstRequest(c) ==
  CASE c.op = "test_connection" -> _get_assets_auth
    [] c.op = "get_balance" -> _get_balances(c.asset_id)
    [] c.op = "get_products" -> _sync_get_assets
    [] c.op = "place_order" ->
         _sync_place_order(c.product_id, c.side, c.quantity, c.price,
                           c.order_type)
    [] c.op = "get_orders" -> _sync_get_orders(c.product_id, c.state)
    [] c.op = "get_ticker" -> _sync_get_assets
    [] c.op = "get_account_info" -> _get_balances("1")

\* faulty variant: every operation but test_connection first looks at
\* self.is_connected and refuses to work while it is False
Continue_gated(c, outs) ==
  IF c.op # "test_connection" /\ ~is_connected
    THEN Step("return", Failure(PyStr("Not connected")), FALSE, <<>>)
  ELSE
  CASE c.op = "test_connection" -> test_connection(outs[1])
    [] c.op = "get_balance" -> get_balance(outs[1])
    [] c.op = "get_products" -> get_products(outs[1])
    [] c.op = "place_order" -> place_order(outs[1])
    [] c.op = "get_orders" -> get_orders(outs[1])
    [] c.op = "get_ticker" -> get_ticker(c.symbol, outs)
    [] c.op = "get_account_info" -> get_account_info(outs[1])

\* the coroutine of call c resumed with the outcomes outs of the venue calls
\* it has awaited so far
Continue(c, outs) ==
  CASE c.op = "test_connection" -> test_connection(outs[1])
    [] c.op = "get_balance" -> get_balance(outs[1])
    [] c.op = "get_products" -> get_products(outs[1])
    [] c.op = "place_order" -> place_order(outs[1])
    [] c.op = "get_orders" -> get_orders(outs[1])
    [] c.op = "get_ticker" -> get_ticker(c.symbol, outs)
    [] c.op = "get_account_info" -> get_account_info(outs[1])

(***************************************************************************)
(* The web client's session: AuthProvider (context/AuthContext.jsx) and    *)
(* the Dashboard page (pages/Dashboard.jsx).  Times are in minutes; the    *)
(* source states them in milliseconds.                                     *)
(***************************************************************************)
\* const sessionTimeout = 4 * 60 * 60 * 1000
sessionTimeout == 240
\* setInterval(initAuth, 5 * 60 * 1000)
validationPeriod == 5
\* const inactivityTimeout = 4 * 60 * 60 * 1000
inactivityTimeout == 240
\* setInterval(..., 60000)
checkPeriod == 1

\* no time: localStorage.getItem gives null, a component is not mounted, a
\* timer is not set
NoTime == -1

\* the routes of AppRoutes, open to every visitor
Routes == {"/login", "/dashboard", "/profile"}

\* the storage with access_token, user and last_activity removed
NoItems == [access_token |-> "null", user |-> "null", last_activity |-> NoTime]

\* what the server answers to GET /api/auth/me: the user, 401, or nothing
MeOutcomes == {"ok", "unauthorized", "failed"}

\* Dashboard mounts, or its effect runs again after setLastActivity: the
\* state is the time of mounting or of the input, and the inactivity
\* interval is set anew
DashboardActive ==
  /\ lastActivity' = now
  /\ idle_due' = now + checkPeriod

\* Dashboard's cleanup: the inactivity interval is cleared
DashboardUnmount ==
  /\ lastActivity' = NoTime
  /\ idle_due' = NoTime

\* logout(): the storage is cleared whatever the server answers, and the
\* user state is reset
logout ==
  /\ localStorage' = NoItems
  /\ user' = "null"

(***************************************************************************)
(* The state machine.                                                      *)
(***************************************************************************)
Init ==
  /\ is_connected = FALSE
  /\ pc = [t \in Tasks |-> "idle"]
  /\ call = [t \in Tasks |-> Unset]
  /\ request = [t \in Tasks |-> Unset]
  /\ future = [t \in Tasks |-> Unset]
  /\ responses = [t \in Tasks |-> <<>>]
  /\ venue_calls = [t \in Tasks |-> <<>>]
  /\ result = [t \in Tasks |-> Unset]
  /\ log = [t \in Tasks |-> <<>>]
  /\ via = [t \in Tasks |-> Unset]
  /\ where = [t \in Tasks |-> "none"]
  /\ runs = [t \in Tasks |-> 0]
  /\ now = 0
  /\ page = "/login"
  /\ localStorage = NoItems
  /\ user = "null"
  /\ lastActivity = NoTime
  /\ auth_due = 0
  /\ idle_due = NoTime
  /\ idle_since = 0

\* the thread of the server's event loop cannot take a step: a *_sync call
\* made on it waits for its separate thread, or a coroutine makes its venue
\* call on the loop thread itself
MainBlocked ==
  \E u \in Tasks :
    \/ (via[u].t = "sync" /\ via[u].thread = "main"
          /\ pc[u] \in {"waiting", "ready"})
    \/ (via[u].t = "await" /\ pc[u] = "waiting" /\ where[u] = "loop")

\* task t, a coroutine on the server's event loop, awaits operation c: the
\* coroutine runs to its first await, which submits a blocking venue call to
\* the executor. via[t] keeps how the call was made and the value
\* self.is_connected had when it was made
Start(t, c) ==
  /\ pc[t] = "idle"
  /\ ~MainBlocked
  /\ pc' = [pc EXCEPT ![t] = "waiting"]
  /\ call' = [call EXCEPT ![t] = c]
  /\ via' = [via EXCEPT ![t] = [t |-> "await", flag |-> is_connected]]
  /\ runs' = [runs EXCEPT ![t] = 1]
  /\ request' = [request EXCEPT ![t] = FirstRequest(c)]
  /\ where' = [where EXCEPT ![t] = run_in_executor]
  /\ venue_calls' = [venue_calls EXCEPT ![t] = <<FirstRequest(c)>>]
  /\ UNCHANGED <<is_connected, future, responses, result, log>>
  /\ UNCHANGED session

\* task t calls the *_sync wrapper of operation c from thread th ("main": the
\* thread of the server's event loop; "own": a thread of its own) whose loop
\* state is ctx: _run_sync picks where the coroutine runs and starts it, or
\* lets an error escape
StartSync(t, c, th, ctx) ==
  /\ pc[t] = "idle"
  /\ th = "main" => (ctx = "running" /\ ~MainBlocked)
  /\ call' = [call EXCEPT ![t] = c]
  /\ LET plan == _run_sync(ctx) IN
       /\ via' = [via EXCEPT ![t] =
                    [t |-> "sync", thread |-> th, ctx |-> ctx,
                     on |-> IF plan.k = "run" THEN plan.on ELSE "nowhere",
                     flag |-> is_connected]]
       /\ runs' = [runs EXCEPT ![t] = plan.starts]
       /\ IF plan.k = "run"
            THEN /\ pc' = [pc EXCEPT ![t] = "waiting"]
                 /\ request' = [request EXCEPT ![t] = FirstRequest(c)]
                 /\ where' = [where EXCEPT ![t] = run_in_executor]
                 /\ venue_calls' =
                      [venue_calls EXCEPT ![t] = <<FirstRequest(c)>>]
                 /\ UNCHANGED result
            ELSE /\ pc' = [pc EXCEPT ![t] = "raised"]
                 /\ result' = [result EXCEPT ![t] = plan.v]
                 /\ UNCHANGED <<request, where, venue_calls>>
  /\ UNCHANGED <<is_connected, future, responses, log>>
  /\ UNCHANGED session

\* the caller awaiting the operation of task t under a deadline of its own
\* gives up: the coroutine is cancelled at its await, the caller goes on
\* without a result
GiveUp(t) ==
  /\ pc[t] = "waiting"
  /\ via[t].t = "await"
  /\ ~MainBlocked
  /\ pc' = [pc EXCEPT ![t] = "cancelled"]
  /\ request' = [request EXCEPT ![t] = cancel_running(@)]
  /\ where' = [where EXCEPT ![t] =
                 IF cancel_running(request[t]) = Unset THEN "none" ELSE @]
  /\ UNCHANGED <<is_connected, call, future, responses, venue_calls, result,
                 log, via, runs>>
  /\ UNCHANGED session

\* the worker finishes the venue call of task t with one of the outcomes
\* outs: the venue client returns some value or throws. When the caller has
\* given up meanwhile, the outcome stays in the executor's future unread
WorkerReturns(t, outs) ==
  /\ pc[t] \in {"waiting", "cancelled"}
  /\ request[t] # Unset
  /\ \E out \in outs : future' = [future EXCEPT ![t] = out]
  /\ pc' = [pc EXCEPT ![t] = IF pc[t] = "waiting" THEN "ready" ELSE "dropped"]
  /\ request' = [request EXCEPT ![t] = Unset]
  /\ where' = [where EXCEPT ![t] = "none"]
  /\ UNCHANGED <<is_connected, call, responses, venue_calls, result, log,
                 via, runs>>
  /\ UNCHANGED session

\* the worker finishes the venue call of task t: any answer of the venue
WorkerRun(t) ==
  /\ request[t] # Unset
  /\ WorkerReturns(t, VenueOutcomes(request[t]))

\* faulty variant: a *_sync call made on the server's loop thread schedules
\* its coroutine on that loop and waits for it
coroutine_loop_of_caller(t) ==
  IF via[t].t = "await" \/ via[t].thread = "main" THEN "main" ELSE "fresh"

\* the event loop that runs the coroutine of task t: the server's loop for
\* an awaited operation; for a *_sync call the loop that asyncio.run creates
\* in the separate thread or in the calling thread, or the calling thread's
\* own idle loop, never the running loop of the caller
coroutine_loop(t) == IF via[t].t = "await" THEN "main" ELSE "fresh"

\* faulty variant: the outcome of a venue call is kept in one slot of the
\* instance, which the worker of another call overwrites
awaited_shared(t) ==
  LET others == {u \in Tasks \ {t} : future[u] # Unset} IN
    IF others = {} THEN future[t] ELSE future[CHOOSE u \in others : TRUE]

\* response = await ...run_in_executor(None, f): the await of task t's
\* coroutine yields the outcome of the executor future of its own call
awaited(t) == future[t]

\* the event loop resumes the coroutine of task t with the worker's outcome:
\* it runs to its next await (get_ticker's second venue call) or to its end
Resume(t) ==
  /\ pc[t] = "ready"
  /\ coroutine_loop(t) = "main" => ~MainBlocked
  /\ LET outs == Append(responses[t], awaited(t))
         step == Continue(call[t], outs)
     IN /\ responses' = [responses EXCEPT ![t] = outs]
        /\ future' = [future EXCEPT ![t] = Unset]
        /\ log' = [log EXCEPT ![t] = step.log]
        /\ is_connected' = (is_connected \/ step.connect)
        /\ IF step.k = "call"
             THEN /\ pc' = [pc EXCEPT ![t] = "waiting"]
                  /\ request' = [request EXCEPT ![t] = step.v]
                  /\ where' = [where EXCEPT ![t] = run_in_executor]
                  /\ venue_calls' =
                       [venue_calls EXCEPT ![t] = Append(@, step.v)]
                  /\ UNCHANGED result
             ELSE /\ pc' = [pc EXCEPT ![t] =
                              IF step.k = "return" THEN "done" ELSE "raised"]
                  /\ result' = [result EXCEPT ![t] =
                                  IF via[t].t = "sync" /\ step.k = "return"
                                    THEN sync_return(step.v) ELSE step.v]
                  /\ UNCHANGED <<request, where, venue_calls>>
        /\ UNCHANGED <<call, via, runs>>
        /\ UNCHANGED session

\* the caller of task t has taken the result (or the exception), or has
\* given up and the abandoned venue call is over; the task can make its next
\* call
Finish(t) ==
  /\ \/ pc[t] \in {"done", "raised"}
     \/ (pc[t] \in {"cancelled", "dropped"} /\ request[t] = Unset)
  /\ via[t].t = "await" => ~MainBlocked
  /\ pc' = [pc EXCEPT ![t] = "idle"]
  /\ via' = [via EXCEPT ![t] = Unset]
  /\ runs' = [runs EXCEPT ![t] = 0]
  /\ call' = [call EXCEPT ![t] = Unset]
  /\ responses' = [responses EXCEPT ![t] = <<>>]
  /\ venue_calls' = [venue_calls EXCEPT ![t] = <<>>]
  /\ result' = [result EXCEPT ![t] = Unset]
  /\ log' = [log EXCEPT ![t] = <<>>]
  /\ future' = [future EXCEPT ![t] = Unset]
  /\ UNCHANGED <<is_connected, request, where>>
  /\ UNCHANGED session

\* one caller at a time: MainTask makes its calls one after the other
Next ==
  \/ \E c \in Calls : Start(MainTask, c)
  \/ WorkerRun(MainTask)
  \/ Resume(MainTask)
  \/ Finish(MainTask)

Spec == Init /\ [][Next]_vars

(***************************************************************************)
(* Concurrent callers: both tasks call, awaiting the operation on the      *)
(* server's event loop or through a *_sync wrapper from some thread.  The  *)
(* venue's answers are cut down to one of each kind per endpoint.          *)
(***************************************************************************)
BasicCalls ==
  {[op |-> "test_connection"], [op |-> "get_balance", asset_id |-> "1"],
   [op |-> "get_ticker", symbol |-> "BTCUSD"], [op |-> "get_products"],
   [op |-> "get_account_info"],
   [op |-> "get_orders", product_id |-> PyNone, state |-> "open"],
   [op |-> "place_order", product_id |-> PyInt(1), side |-> "buy",
    quantity |-> PyFloat(15), price |-> PyInt(100),
    order_type |-> "limit_order"]}

BasicOutcomes(req) ==
  {Raise("Connection timed out"), Return(VenueError)} \cup
  CASE req.ep = "get_assets" -> {Return(PyList(<<Product(1, "BTCUSD")>>))}
    [] req.ep = "get_balances" ->
         {Return(Envelope(PyList(<<Balance("BTC", 3, 1, 2)>>)))}
    [] req.ep = "get_ticker" -> {Return(Envelope(Ticker))}
    [] req.ep = "place_order" -> {Return(Envelope(Order))}
    [] req.ep = "get_live_orders" -> {Return(Envelope(PyList(<<Order>>)))}

\* the worker finishes the venue call of task t: one of the basic answers
WorkerRunBasic(t) ==
  /\ request[t] # Unset
  /\ WorkerReturns(t, BasicOutcomes(request[t]))

NextConc ==
  \/ \E t \in Tasks, c \in BasicCalls : Start(t, c)
  \/ \E t \in Tasks, c \in BasicCalls, th \in {"main", "own"},
        ctx \in Contexts : StartSync(t, c, th, ctx)
  \/ \E t \in Tasks : GiveUp(t)
  \/ \E t \in Tasks : WorkerRunBasic(t)
  \/ \E t \in Tasks : Resume(t)
  \/ \E t \in Tasks : Finish(t)

SpecConc == Init /\ [][NextConc]_vars

(***************************************************************************)
(* *_sync calls made where an event loop is running, next to operations    *)
(* awaited on the server's loop.  The venue answers every call (it returns *)
(* or throws), and an event loop that has a coroutine to resume and is not *)
(* kept from running resumes it.                                           *)
(***************************************************************************)
SyncCalls ==
  {[op |-> "get_balance", asset_id |-> "1"],
   [op |-> "get_ticker", symbol |-> "BTCUSD"]}

NextSync ==
  \/ \E t \in Tasks, c \in SyncCalls : Start(t, c)
  \/ \E t \in Tasks, c \in SyncCalls, th \in {"main", "own"} :
        StartSync(t, c, th, "running")
  \/ \E t \in Tasks : WorkerRunBasic(t)
  \/ \E t \in Tasks : Resume(t)
  \/ \E t \in Tasks : Finish(t)

SpecSyncFair ==
  /\ Init /\ [][NextSync]_vars
  /\ \A t \in Tasks : WF_vars(WorkerRunBasic(t)) /\ WF_vars(Resume(t))

(***************************************************************************)
(* The session of the web client.  The user acts (logs in, moves between   *)
(* routes, moves the mouse, logs out) during the first MaxActive minutes   *)
(* and then leaves the tab open; the two interval timers fire when due.    *)
(***************************************************************************)
\* initAuth, at mount and then every validationPeriod minutes
initAuth ==
  /\ now = auth_due
  /\ auth_due' = now + validationPeriod
  /\ IF /\ localStorage.access_token # "null"
        /\ localStorage.last_activity # NoTime
        /\ now - localStorage.last_activity < sessionTimeout
       THEN \E me \in MeOutcomes :
              CASE me = "ok" ->
                     /\ localStorage' =
                          [localStorage EXCEPT !.last_activity = now]
                     /\ user' = "user"
                     /\ UNCHANGED <<page, lastActivity, idle_due>>
                [] me = "unauthorized" /\ page # "/login" ->
                     \* the response interceptor sends the browser to
                     \* /login; the application starts anew there
                     /\ localStorage' = NoItems
                     /\ user' = "null"
                     /\ page' = "/login"
                     /\ DashboardUnmount
                [] OTHER ->
                     /\ localStorage' = NoItems
                     /\ UNCHANGED <<user, page, lastActivity, idle_due>>
       ELSE IF localStorage.access_token # "null"
         THEN /\ localStorage' = NoItems
              /\ UNCHANGED <<user, page, lastActivity, idle_due>>
         ELSE UNCHANGED <<localStorage, user, page, lastActivity, idle_due>>
  /\ UNCHANGED <<now, idle_since>>
  /\ UNCHANGED adapter

\* login(credentials), accepted by the server
login ==
  /\ page = "/login"
  /\ now <= MaxActive
  /\ localStorage' =
       [access_token |-> "token", user |-> "user", last_activity |-> now]
  /\ user' = "user"
  /\ idle_since' = now
  /\ UNCHANGED <<now, page, lastActivity, auth_due, idle_due>>
  /\ UNCHANGED adapter

\* the user moves to route p
Navigate(p) ==
  /\ p # page
  /\ now <= MaxActive
  /\ page' = p
  /\ idle_since' = now
  /\ IF p = "/dashboard" THEN DashboardActive ELSE DashboardUnmount
  /\ UNCHANGED <<now, localStorage, user, auth_due>>
  /\ UNCHANGED adapter

\* the user moves the mouse, presses a key, scrolls, clicks or touches
Activity ==
  /\ now <= MaxActive
  /\ idle_since' = now
  /\ IF page = "/dashboard" THEN DashboardActive
                            ELSE UNCHANGED <<lastActivity, idle_due>>
  /\ UNCHANGED <<now, page, localStorage, user, auth_due>>
  /\ UNCHANGED adapter

\* the user presses Dashboard's Logout button
handleLogout ==
  /\ page = "/dashboard"
  /\ now <= MaxActive
  /\ logout
  /\ idle_since' = now
  /\ DashboardActive
  /\ UNCHANGED <<now, page, auth_due>>
  /\ UNCHANGED adapter

\* Dashboard's inactivity interval fires
inactivityInterval ==
  /\ page = "/dashboard"
  /\ now = idle_due
  /\ idle_due' = now + checkPeriod
  /\ IF now - lastActivity > inactivityTimeout
       THEN logout
       ELSE UNCHANGED <<localStorage, user>>
  /\ UNCHANGED <<now, page, lastActivity, auth_due, idle_since>>
  /\ UNCHANGED adapter

\* a minute passes; no timer that is due is passed over
Tick ==
  /\ now < MaxTime
  /\ auth_due > now
  /\ idle_due = NoTime \/ idle_due > now
  /\ now' = now + 1
  /\ UNCHANGED <<page, localStorage, user, lastActivity, auth_due, idle_due,
                 idle_since>>
  /\ UNCHANGED adapter

NextSession ==
  \/ initAuth
  \/ login
  \/ \E p \in Routes : Navigate(p)
  \/ Activity
  \/ handleLogout
  \/ inactivityInterval
  \/ Tick

SpecSession == Init /\ [][NextSession]_vars

(***************************************************************************)
(* Properties.                                                             *)
(***************************************************************************)
\* the result slots of a NormalizedResult
HasPayload(v) == v.t = "dict" /\ "result" \in DOMAIN v.d
HasMessage(v) ==
  /\ v.t = "dict"
  /\ "error" \in DOMAIN v.d
  /\ v.d.error.t = "dict"
  /\ "message" \in DOMAIN v.d.error.d
ExactlyOne(v) == HasPayload(v) # HasMessage(v)

\* the venue's failure envelope: a dict whose success flag is present and false
IsFailureEnvelope(v) ==
  v.t = "dict" /\ "success" \in DOMAIN v.d /\ v.d.success = PyFalse

\* the response shapes test_connection accepts
IsNonEmptyList(v) == v.t = "list" /\ v.items # <<>>
Accepted(v) ==
  IsNonEmptyList(v) \/ (v.t = "dict" /\ Truthy(Get(v, "success", PyFalse)))

\* a venue outcome whose shape the adapter rebuilds or wraps itself: a thrown
\* error, a value that is no dict, a success envelope, or a failure envelope
\* that carries error.message and no result
Rebuilt(out) ==
  \/ out.k = "raise"
  \/ out.v.t # "dict"
  \/ IsSuccessDict(out.v)
  \/ (IsFailureEnvelope(out.v) /\ HasMessage(out.v) /\ ~HasPayload(out.v))

Finished(t, op) == pc[t] = "done" /\ call[t].op = op

C2_NeverRaises == \A t \in Tasks : pc[t] # "raised"

C2_Witness ==
  \E t \in Tasks :
    /\ pc[t] = "done"
    /\ call[t].op = "get_orders"
    /\ responses[t][1] = Return(PyNone)
    /\ HasMessage(result[t])

\* ---- C3 ----
\* C3: test_connection makes exactly the authenticated list-assets call and
\* returns True exactly when the response is a non-empty list or a dict whose
\* success flag is true; otherwise it returns False.
C3_SuccessRule ==
  \A t \in Tasks : Finished(t, "test_connection") =>
    /\ venue_calls[t] = <<[ep |-> "get_assets", auth |-> TRUE]>>
    /\ result[t] \in {PyTrue, PyFalse}
    /\ result[t] = PyTrue <=>
         (responses[t][1].k = "return" /\ Accepted(responses[t][1].v))

C3_Witness ==
  \E t \in Tasks :
    /\ Finished(t, "test_connection")
    /\ responses[t][1].k = "return"
    /\ IsNonEmptyList(responses[t][1].v)
    /\ result[t] = PyTrue

\* ---- C4 ----
\* C4 as stated: on the envelope {success: true, result: []} test_connection
\* reports failure.
C4_AsStated ==
  \A t \in Tasks :
    (Finished(t, "test_connection")
       /\ responses[t][1] = Return(Envelope(PyList(<<>>))))
    => result[t] # PyTrue

\* C4 as amended: on the envelope {success: true, result: []}
\* test_connection returns True and sets the connected flag: the envelope's
\* success flag decides, the non-empty rule applies to bare lists only.
C4_EnvelopeWins ==
  \A t \in Tasks :
    (Finished(t, "test_connection")
       /\ responses[t][1] = Return(Envelope(PyList(<<>>))))
    => (result[t] = PyTrue /\ is_connected)

C4_Witness ==
  \E t \in Tasks :
    /\ Finished(t, "test_connection")
    /\ responses[t][1] = Return(Envelope(PyList(<<>>)))
    /\ result[t] = PyTrue

\* ---- C5 ----
\* C5 as stated: when the response is an empty list or another shape that
\* is not accepted, test_connection returns False and the connected flag is
\* false once the call has finished.
C5_AsStated ==
  \A t \in Tasks :
    (Finished(t, "test_connection")
       /\ responses[t][1].k = "return" /\ ~Accepted(responses[t][1].v))
    => (result[t] = PyFalse /\ ~is_connected)

\* C5 as amended: when the response is an empty list or another shape that
\* is not accepted, test_connection returns False and does not change the
\* connected flag: it is false afterwards only if it was false before.
C5_FlagUntouched ==
  [][\A t \in Tasks :
       (/\ pc[t] = "ready" /\ pc'[t] # "ready"
        /\ call[t].op = "test_connection"
        /\ future[t].k = "return" /\ ~Accepted(future[t].v))
       => (/\ pc'[t] = "done"
           /\ result'[t] = PyFalse
           /\ is_connected' = is_connected)]_vars

C5_Witness ==
  \E t \in Tasks :
    /\ Finished(t, "test_connection")
    /\ responses[t][1] = Return(PyList(<<>>))
    /\ result[t] = PyFalse
    /\ is_connected

\* ---- C6 ----
\* a balance entry that carries its symbol and its three amounts
FullEntry(e) ==
  /\ e.t = "dict"
  /\ {"asset_symbol", "balance", "reserved_balance", "available_balance"}
       \subseteq DOMAIN e.d
  /\ e.d.asset_symbol.t = "str"

\* a success envelope whose result is a list of full entries with pairwise
\* distinct asset symbols
DistinctBalances(v) ==
  /\ IsSuccessDict(v)
  /\ "result" \in DOMAIN v.d
  /\ v.d.result.t = "list"
  /\ \A i \in 1..Len(v.d.result.items) : FullEntry(v.d.result.items[i])
  /\ \A i, j \in 1..Len(v.d.result.items) :
       v.d.result.items[i].d.asset_symbol = v.d.result.items[j].d.asset_symbol
         => i = j

\* C6: on a success envelope listing balance entries with distinct asset
\* symbols, get_balance returns {success: True, result: m} where m has exactly
\* one key per entry, its asset_symbol, mapped to exactly that entry's
\* balance, reserved_balance and available_balance.
C6_BalanceMapping ==
  \A t \in Tasks :
    (/\ Finished(t, "get_balance")
     /\ responses[t][1].k = "return"
     /\ DistinctBalances(responses[t][1].v))
    => LET entries == responses[t][1].v.d.result.items
           m == result[t].d.result
       IN /\ DOMAIN result[t].d = {"success", "result"}
          /\ result[t].d.success = PyTrue
          /\ m.t = "dict"
          /\ DOMAIN m.d = {entries[i].d.asset_symbol.s : i \in 1..Len(entries)}
          /\ \A i \in 1..Len(entries) :
               LET e == entries[i].d IN
                 m.d[e.asset_symbol.s] =
                   PyDict([balance |-> e.balance,
                           reserved_balance |-> e.reserved_balance,
                           available_balance |-> e.available_balance])

C6_Witness ==
  \E t \in Tasks :
    /\ Finished(t, "get_balance")
    /\ responses[t][1].k = "return"
    /\ DistinctBalances(responses[t][1].v)
    /\ Len(responses[t][1].v.d.result.items) = 2
    /\ DOMAIN result[t].d.result.d = {"BTC", "ETH"}

\* ---- C7 ----
\* C7: on a failure envelope {success: false, error: {message: m}} get_balance
\* returns the venue's envelope itself: a Failure carrying m, with nothing
\* added and nothing removed.
C7_FailurePassThrough ==
  \A t \in Tasks :
    (/\ Finished(t, "get_balance")
     /\ responses[t][1].k = "return"
     /\ IsFailureEnvelope(responses[t][1].v)
     /\ HasMessage(responses[t][1].v))
    => /\ result[t] = responses[t][1].v
       /\ result[t].d.error.d.message = responses[t][1].v.d.error.d.message

C7_Witness ==
  \E t \in Tasks :
    /\ Finished(t, "get_balance")
    /\ responses[t][1] = Return(VenueError)
    /\ result[t].d.success = PyFalse
    /\ result[t].d.error.d.message = PyStr("bad asset")

\* ---- C8 ----
\* C8 as stated: every operation that receives an envelope whose success
\* flag is false returns that envelope unchanged, get_products and the
\* catalogue step of get_ticker included.
C8_AsStated ==
  \A t \in Tasks : pc[t] = "done" =>
    \A i \in 1..Len(responses[t]) :
      (responses[t][i].k = "return" /\ IsFailureEnvelope(responses[t][i].v))
        => result[t] = responses[t][i].v

\* C8 as amended: get_balance, place_order, get_orders, get_account_info and
\* the ticker step of get_ticker return an envelope whose success flag is
\* false unchanged; get_products and the catalogue step of get_ticker
\* replace it by the adapter's own Failure "Unable to get products", and
\* test_connection returns False.
C8_PassThroughWhere ==
  \A t \in Tasks : pc[t] = "done" =>
    \A i \in 1..Len(responses[t]) :
      (responses[t][i].k = "return" /\ IsFailureEnvelope(responses[t][i].v))
        => CASE call[t].op = "test_connection" -> result[t] = PyFalse
             [] call[t].op = "get_products"
                  \/ (call[t].op = "get_ticker" /\ i = 1) ->
                  result[t] = Failure(PyStr("Unable to get products"))
             [] OTHER -> result[t] = responses[t][i].v

C8_Witness ==
  \E t \in Tasks :
    /\ Finished(t, "get_ticker")
    /\ Len(responses[t]) = 2
    /\ responses[t][2] = Return(VenueError)
    /\ result[t] = VenueError

\* ---- C9 ----
\* C9: when the venue client throws during get_balance, place_order,
\* get_orders, get_products, get_ticker (either venue call) or
\* get_account_info, the operation returns
\* {success: False, error: {message: str(e)}} for the thrown exception e.
C9_ThrownMessage ==
  \A t \in Tasks :
    (/\ pc[t] \in {"done", "raised"}
     /\ call[t].op # "test_connection"
     /\ responses[t][Len(responses[t])].k = "raise")
    => /\ pc[t] = "done"
       /\ result[t] = Failure(responses[t][Len(responses[t])].v)

C9_Witness ==
  \E t \in Tasks :
    /\ Finished(t, "get_account_info")
    /\ responses[t][1] = Raise("Connection timed out")
    /\ result[t] = Failure(PyStr("Connection timed out"))

\* ---- C10 ----
\* the response test_connection got is not accepted, or the venue threw
Rejected(out) == out.k = "raise" \/ ~Accepted(out.v)

Contains(s, sub) ==
  \E i \in 1..(Len(s) - Len(sub) + 1) : SubSeq(s, i, i + Len(sub) - 1) = sub

\* the listing outcome out is a catalogue: a bare list, or a success envelope
\* whose result is a list or is absent
IsCatalogue(out) ==
  /\ out.k = "return"
  /\ \/ out.v.t = "list"
     \/ (IsSuccessDict(out.v) /\ Get(out.v, "result", PyList(<<>>)).t = "list")

\* the products of a catalogue, in list order
Catalogue(out) ==
  IF out.v.t = "list" THEN out.v.items
  ELSE Get(out.v, "result", PyList(<<>>)).items

\* the positions of the catalogue's products that carry symbol
Matches(out, symbol) ==
  {i \in 1..Len(Catalogue(out)) :
     /\ Catalogue(out)[i].t = "dict"
     /\ Get(Catalogue(out)[i], "symbol", PyNone) = PyStr(symbol)}

\* task t is in a get_ticker call that has received the listing
TickerListed(t) ==
  /\ pc[t] # "idle"
  /\ call[t].op = "get_ticker"
  /\ Len(responses[t]) >= 1

TickerCalls(t) ==
  {k \in 1..Len(venue_calls[t]) : venue_calls[t][k].ep = "get_ticker"}

\* C11: when the catalogue the listing returned holds no product with the
\* requested symbol, the ticker endpoint is called in no state of that
\* get_ticker call, and the call ends returning a Failure whose message
\* contains "not found".
C11_NotFoundShortCircuit ==
  \A t \in Tasks :
    (/\ TickerListed(t)
     /\ IsCatalogue(responses[t][1])
     /\ \A i \in 1..Len(Catalogue(responses[t][1])) :
          Catalogue(responses[t][1])[i].t = "dict"
     /\ Matches(responses[t][1], call[t].symbol) = {})
    => /\ TickerCalls(t) = {}
       /\ pc[t] = "done"
       /\ HasMessage(result[t]) /\ ~HasPayload(result[t])
       /\ result[t].d.success = PyFalse
       /\ result[t].d.error.d.message.t = "str"
       /\ Contains(result[t].d.error.d.message.s, "not found")

C11_Witness ==
  \E t \in Tasks :
    /\ Finished(t, "get_ticker")
    /\ call[t].symbol = "XYZ"
    /\ responses[t] = <<Return(PyList(<<Product(1, "BTCUSD"), Product(3, "ETHUSD")>>))>>
    /\ venue_calls[t] = <<[ep |-> "get_assets", auth |-> FALSE]>>
    /\ Contains(result[t].d.error.d.message.s, "not found")

\* ---- C12 ----
\* the first position of the catalogue whose product carries symbol
FirstMatch(out, symbol) ==
  CHOOSE i \in Matches(out, symbol) : \A j \in Matches(out, symbol) : i <= j

\* C12: get_ticker scans the catalogue in list order for a product whose
\* symbol equals the requested one; every ticker call of the get_ticker call
\* carries the id of the first such product, and when that product has an
\* id the ticker call is made, once, right after the listing.
C12_FirstMatchWins ==
  \A t \in Tasks :
    (/\ TickerListed(t)
     /\ IsCatalogue(responses[t][1])
     /\ \A i \in 1..Len(Catalogue(responses[t][1])) :
          Catalogue(responses[t][1])[i].t = "dict"
     /\ Matches(responses[t][1], call[t].symbol) # {})
    => LET first ==
             Catalogue(responses[t][1])
               [FirstMatch(responses[t][1], call[t].symbol)]
       IN /\ \A k \in TickerCalls(t) :
               /\ "id" \in DOMAIN first.d
               /\ venue_calls[t][k] =
                    [ep |-> "get_ticker", product_id |-> first.d.id]
          /\ "id" \in DOMAIN first.d => TickerCalls(t) = {2}

C12_Witness ==
  \E t \in Tasks :
    /\ TickerListed(t)
    /\ call[t].symbol = "BTCUSD"
    /\ responses[t][1] =
         Return(PyList(<<Product(2, "BTCUSD"), Product(1, "BTCUSD")>>))
    /\ venue_calls[t] =
         <<[ep |-> "get_assets", auth |-> FALSE],
           [ep |-> "get_ticker", product_id |-> PyInt(2)]>>

\* ---- C13 ----
\* C13: the size place_order hands to the venue is the integer part of the
\* requested quantity: an int n with n <= q < n + 1 for q >= 0 and
\* n - 1 < q <= n for q <= 0 (quantities in tenths, so 1.9 is 19 and goes
\* out as 1).
C13_SizeTruncated ==
  \A t \in Tasks :
    (pc[t] # "idle" /\ call[t].op = "place_order")
    => LET q == call[t].quantity.tenths
           size == venue_calls[t][1].size
       IN /\ Len(venue_calls[t]) = 1
          /\ venue_calls[t][1].ep = "place_order"
          /\ size.t = "int"
          /\ q >= 0 => (10 * size.n <= q /\ q < 10 * size.n + 10)
          /\ q <= 0 => (10 * size.n >= q /\ q > 10 * size.n - 10)

C13_Witness ==
  \E t \in Tasks :
    /\ Finished(t, "place_order")
    /\ call[t].quantity = PyFloat(19)
    /\ venue_calls[t][1].size = PyInt(1)

\* ---- C14 ----
\* C14: get_products makes exactly the unauthenticated list-assets call; a
\* bare list L, the empty one included, and a success envelope whose result
\* is the list L both come back as {success: True, result: L}.
C14_ProductsNormalized ==
  \A t \in Tasks :
    (Finished(t, "get_products") /\ responses[t][1].k = "return")
    => LET r == responses[t][1].v IN
         /\ venue_calls[t] = <<[ep |-> "get_assets", auth |-> FALSE]>>
         /\ r.t = "list" => result[t] = Success(r)
         /\ (IsSuccessDict(r) /\ "result" \in DOMAIN r.d /\ r.d.result.t = "list")
              => result[t] = Success(r.d.result)

C14_Witness ==
  \E t \in Tasks :
    /\ Finished(t, "get_products")
    /\ responses[t][1] = Return(Envelope(PyList(<<Product(3, "ETHUSD")>>)))
    /\ result[t] = Success(PyList(<<Product(3, "ETHUSD")>>))

\* ---- C17 ----
\* C17: nothing is retried: in every state of a call no venue endpoint
\* occurs twice among the venue calls made so far, whatever the venue
\* returned or threw; get_ticker makes the asset listing first and then at
\* most one ticker call, every other operation makes one venue call.
C17_NoRetry ==
  \A t \in Tasks : pc[t] # "idle" =>
    /\ \A i, j \in 1..Len(venue_calls[t]) :
         venue_calls[t][i].ep = venue_calls[t][j].ep => i = j
    /\ Len(venue_calls[t]) >= 1
    /\ IF call[t].op = "get_ticker"
         THEN /\ venue_calls[t][1].ep = "get_assets"
              /\ Len(venue_calls[t]) <= 2
         ELSE Len(venue_calls[t]) = 1

C17_Witness ==
  \E t \in Tasks :
    /\ Finished(t, "get_ticker")
    /\ Len(responses[t]) = 2
    /\ responses[t][2] = Raise("Connection timed out")
    /\ Len(venue_calls[t]) = 2
    /\ venue_calls[t][2].ep = "get_ticker"

\* ---- C18 ----
\* C18 as stated: get_account_info looks up the balances of asset "1" and
\* returns, for every venue outcome, what get_balance returns for it.
C18_AsStated ==
  \A t \in Tasks : Finished(t, "get_account_info") =>
    /\ venue_calls[t] = <<[ep |-> "get_balances", asset_id |-> "1"]>>
    /\ result[t] = get_balance(responses[t][1]).v

\* C18 as amended: get_account_info looks up the balances of asset "1"; when
\* the venue throws or answers with anything but a success envelope it
\* returns what get_balance returns; on a success envelope it returns
\* {success: True, result: r} with the venue's result r as it is ({} when
\* the envelope has none), not get_balance's mapping by asset symbol.
C18_AliasExceptSuccess ==
  \A t \in Tasks : Finished(t, "get_account_info") =>
    /\ venue_calls[t] = <<[ep |-> "get_balances", asset_id |-> "1"]>>
    /\ IF responses[t][1].k = "return" /\ IsSuccessDict(responses[t][1].v)
         THEN result[t] =
                Success(Get(responses[t][1].v, "result", PyDict(<<>>)))
         ELSE result[t] = get_balance(responses[t][1]).v

C18_Witness ==
  \E t \in Tasks :
    /\ Finished(t, "get_account_info")
    /\ responses[t][1] = Return(Envelope(PyList(<<Balance("BTC", 3, 1, 2)>>)))
    /\ result[t] = Success(PyList(<<Balance("BTC", 3, 1, 2)>>))
    /\ result[t] # get_balance(responses[t][1]).v

\* ---- C15 ----
\* task t is in a *_sync call made from a thread whose event loop is running
SyncInLoop(t) == via[t].t = "sync" /\ via[t].ctx = "running"

\* C15: *_sync calls made where an event loop is already running, also two
\* at a time, never end in an error ("This event loop is already running" or
\* any other), and each returns what the asynchronous operation returns for
\* the venue outcomes the call received.
C15_SyncInRunningLoop ==
  \A t \in Tasks : SyncInLoop(t) =>
    /\ pc[t] # "raised"
    /\ pc[t] = "done" => result[t] = Continue(call[t], responses[t]).v

C15_Witness ==
  \E t, u \in Tasks :
    /\ t # u
    /\ SyncInLoop(t) /\ SyncInLoop(u)
    /\ via[t].thread = "main"
    /\ pc[t] = "ready"
    /\ pc[u] = "done"
    /\ call[u].op = "get_balance"
    /\ HasPayload(result[u])

\* ---- C20 ----
\* C20: _run_sync picks its mode from the caller's context. With an event
\* loop running in the calling thread the coroutine runs on a separate thread
\* while the caller waits (a caller on the loop thread keeps that loop from
\* taking any step until the call has returned); with no loop running the
\* coroutine is driven in the calling thread. In both modes the call does not
\* raise and the coroutine is started exactly once.
C20_ModeFromContext ==
  \A t \in Tasks : (via[t].t = "sync") =>
    /\ pc[t] # "raised"
    /\ runs[t] = 1
    /\ via[t].ctx = "running" => via[t].on = "thread"
    /\ via[t].ctx # "running" => via[t].on = "caller"
    /\ (via[t].thread = "main" /\ pc[t] \in {"waiting", "ready"}) => MainBlocked

C20_Witness ==
  \E t, u \in Tasks :
    /\ via[t].t = "sync" /\ via[t].ctx = "running" /\ via[t].on = "thread"
    /\ via[u].t = "sync" /\ via[u].ctx = "idle" /\ via[u].on = "caller"
    /\ pc[t] = "done" /\ pc[u] = "done"
    /\ runs[t] = 1 /\ runs[u] = 1

\* ---- C16 ----
\* task t awaits a venue call that has been issued and has not yet returned
Suspended(t) == via[t].t = "await" /\ pc[t] = "waiting"

\* a *_sync call made on the loop thread is in progress
SyncOnLoopThread ==
  \E u \in Tasks : /\ via[u].t = "sync"
                   /\ via[u].thread = "main"
                   /\ pc[u] \in {"waiting", "ready"}

\* the event loop can run task u: start an operation in it, or resume its
\* coroutine once its venue call has returned
CanStep(u) ==
  /\ pc[u] = "idle" => \A c \in BasicCalls : ENABLED Start(u, c)
  /\ (pc[u] = "ready" /\ via[u].t = "await") => ENABLED Resume(u)

\* C16 (state part): while the venue call of an awaited operation is
\* outstanding it runs on a worker thread, and the operation does not keep
\* the event loop from running the other task.
C16_LoopFreeWhileWaiting ==
  \A t \in Tasks : Suspended(t) =>
    /\ where[t] = run_in_executor
    /\ where[t] # "loop"
    /\ ~SyncOnLoopThread => \A u \in Tasks \ {t} : CanStep(u)

\* C16 (step part): a coroutine takes its next step (it consumes a venue
\* outcome) only after its worker call has completed.
C16_ResumeAfterCompletion ==
  \A t \in Tasks :
    (responses'[t] # responses[t] /\ responses'[t] # <<>>) =>
      /\ pc[t] = "ready"
      /\ future[t] # Unset
      /\ responses'[t] = Append(responses[t], future[t])

\* C16: an awaited adapter operation never blocks its caller's event loop and
\* resumes only after its worker call has completed.
C16_NeverBlocksLoop ==
  [](C16_LoopFreeWhileWaiting) /\ [][C16_ResumeAfterCompletion]_vars

C16_Witness ==
  \E t, u \in Tasks :
    /\ t # u
    /\ Suspended(t) /\ where[t] = "worker"
    /\ via[u].t = "await" /\ pc[u] = "done"
    /\ Len(venue_calls[u]) >= 1
    /\ HasPayload(result[u])

\* ---- C19 ----
\* the client holds a session: a stored token, or a user in AuthProvider
LoggedIn == localStorage.access_token # "null" \/ user # "null"

\* C19: the session times out after 4 hours of inactivity: once the user has
\* given no input for inactivityTimeout minutes and both timers have had
\* their turn, the stored token is cleared and no user is authenticated.
C19_SessionTimesOut ==
  (now - idle_since > inactivityTimeout + validationPeriod) => ~LoggedIn

\* ---- C27 ----
\* C27: the scan of get_ticker stops at the first product whose symbol
\* matches. When that product has no id, the call returns the Failure
\* "Product not found for symbol: <symbol>" and calls the ticker endpoint in
\* no state, also when a later product with the same symbol has an id.
C27_FirstMatchWithoutId ==
  \A t \in Tasks :
    (/\ TickerListed(t)
     /\ IsCatalogue(responses[t][1])
     /\ \A i \in 1..Len(Catalogue(responses[t][1])) :
          Catalogue(responses[t][1])[i].t = "dict"
     /\ Matches(responses[t][1], call[t].symbol) # {}
     /\ "id" \notin DOMAIN
          Catalogue(responses[t][1])
            [FirstMatch(responses[t][1], call[t].symbol)].d)
    => /\ TickerCalls(t) = {}
       /\ pc[t] = "done"
       /\ result[t] =
            Failure(PyStr("Product not found for symbol: " \o call[t].symbol))

C27_Witness ==
  \E t \in Tasks :
    /\ Finished(t, "get_ticker")
    /\ call[t].symbol = "BTCUSD"
    /\ responses[t] =
         <<Return(PyList(<<PyDict([symbol |-> PyStr("BTCUSD")]),
                           Product(1, "BTCUSD")>>))>>
    /\ venue_calls[t] = <<[ep |-> "get_assets", auth |-> FALSE]>>
    /\ result[t] = Failure(PyStr("Product not found for symbol: BTCUSD"))

\* ---- C28 ----
\* what get_products returns for the listing outcome out
Listing(out) == get_products(out).v

\* C28: when get_products returns a Failure inside get_ticker (the listing
\* has an unrecognised shape, is a failure envelope, or the venue threw),
\* get_ticker returns that Failure as it is and calls the ticker endpoint in
\* no state of the call.
C28_ListingFailureReturned ==
  \A t \in Tasks :
    (TickerListed(t) /\ ~Truthy(Get(Listing(responses[t][1]), "success", PyFalse)))
    => /\ pc[t] = "done"
       /\ result[t] = Listing(responses[t][1])
       /\ result[t].d.success = PyFalse /\ HasMessage(result[t])
       /\ TickerCalls(t) = {}
       /\ Len(venue_calls[t]) = 1

C28_Witness ==
  \E t \in Tasks :
    /\ Finished(t, "get_ticker")
    /\ call[t].symbol = "BTCUSD"
    /\ responses[t] = <<Return(PyDict([status |-> PyStr("ok")]))>>
    /\ result[t] = Failure(PyStr("Unable to get products"))
    /\ TickerCalls(t) = {}

\* ---- C29 ----
\* a success envelope whose result is a list of dict entries, each with a
\* string asset_symbol or with none
BalanceList(v) ==
  /\ IsSuccessDict(v)
  /\ "result" \in DOMAIN v.d
  /\ v.d.result.t = "list"
  /\ \A i \in 1..Len(v.d.result.items) :
       /\ v.d.result.items[i].t = "dict"
       /\ Get(v.d.result.items[i], "asset_symbol", PyStr("unknown")).t = "str"

\* the key get_balance files entry e under
KeyOf(e) == Get(e, "asset_symbol", PyStr("unknown")).s

\* C29: in get_balance's mapping every key holds the fields of the last
\* entry of the venue's list filed under it, an entry without asset_symbol
\* is filed under "unknown", and the mapping has one key per distinct key of
\* the list, so never more keys than the list has entries.
C29_LastEntryWins ==
  \A t \in Tasks :
    (/\ Finished(t, "get_balance")
     /\ responses[t][1].k = "return"
     /\ BalanceList(responses[t][1].v))
    => LET entries == responses[t][1].v.d.result.items
           m == result[t].d.result
       IN /\ result[t].d.success = PyTrue
          /\ m.t = "dict"
          /\ DOMAIN m.d = {KeyOf(entries[i]) : i \in 1..Len(entries)}
          /\ Cardinality(DOMAIN m.d) <= Len(entries)
          /\ \A i \in 1..Len(entries) :
               (\A j \in (i + 1)..Len(entries) : KeyOf(entries[j]) # KeyOf(entries[i]))
               => m.d[KeyOf(entries[i])] =
                    PyDict([balance |-> Get(entries[i], "balance", PyInt(0)),
                            reserved_balance |->
                              Get(entries[i], "reserved_balance", PyInt(0)),
                            available_balance |->
                              Get(entries[i], "available_balance", PyInt(0))])
          /\ \A i \in 1..Len(entries) :
               "asset_symbol" \notin DOMAIN entries[i].d => "unknown" \in DOMAIN m.d

C29_Witness ==
  \E t \in Tasks :
    /\ Finished(t, "get_balance")
    /\ responses[t][1] =
         Return(Envelope(PyList(<<Balance("BTC", 3, 1, 2), Balance("BTC", 9, 4, 5)>>)))
    /\ DOMAIN result[t].d.result.d = {"BTC"}
    /\ result[t].d.result.d["BTC"] =
         PyDict([balance |-> PyInt(9), reserved_balance |-> PyInt(4),
                 available_balance |-> PyInt(5)])

\* ---- C30 ----
\* the operations that hand a response without a true success flag back
PassThroughOps ==
  {"get_balance", "place_order", "get_orders", "get_account_info", "get_ticker"}

\* the venue outcome the pass-through rule of a finished call applies to: the
\* only one, or get_ticker's ticker outcome (none when the call ended at the
\* listing)
LastStep(t) ==
  IF call[t].op = "get_ticker" THEN 2 ELSE 1

\* {success: True, result: ...} and nothing else
IsRebuilt(v) ==
  v.t = "dict" /\ DOMAIN v.d = {"success", "result"} /\ v.d.success = PyTrue

\* C30: get_balance, place_order, get_orders, get_account_info and the
\* ticker step of get_ticker return the venue's response itself whenever it
\* is a dict whose success field is absent or false, whatever else it holds;
\* a value {success: True, result: ...} is returned only for a response dict
\* whose success field is true.
C30_PassThroughFrame ==
  \A t \in Tasks :
    (/\ pc[t] = "done"
     /\ call[t].op \in PassThroughOps
     /\ Len(responses[t]) = LastStep(t)
     /\ responses[t][LastStep(t)].k = "return"
     /\ responses[t][LastStep(t)].v.t = "dict")
    => LET response == responses[t][LastStep(t)].v IN
         /\ ("success" \notin DOMAIN response.d \/ response.d.success = PyFalse)
              => result[t] = response
         /\ IsRebuilt(result[t])
              => ("success" \in DOMAIN response.d /\ response.d.success = PyTrue)

C30_Witness ==
  \E t \in Tasks :
    /\ Finished(t, "place_order")
    /\ responses[t][1] = Return(PyDict([success |-> PyFalse]))
    /\ result[t] = PyDict([success |-> PyFalse])
    /\ ~HasMessage(result[t])

\* ---- C24 ----
\* a response that is neither a list nor an envelope: no list, and no dict
\* with a success field
Unrecognised(v) == v.t # "list" /\ ~(v.t = "dict" /\ "success" \in DOMAIN v.d)

\* the messages the venue writes into its failure envelopes
VenueMessages == {VenueError.d.error.d.message}

\* a Failure whose message is not one of the venue's
AdapterFailure(v) ==
  /\ v.t = "dict"
  /\ "success" \in DOMAIN v.d /\ v.d.success = PyFalse
  /\ HasMessage(v)
  /\ v.d.error.d.message \notin VenueMessages

\* task t has finished a data operation whose last venue outcome is an
\* unrecognised response
EndedUnrecognised(t) ==
  /\ pc[t] = "done"
  /\ call[t].op # "test_connection"
  /\ responses[t][Len(responses[t])].k = "return"
  /\ Unrecognised(responses[t][Len(responses[t])].v)

SameCallOtherFlag(t, u) ==
  /\ pc[t] # "idle" /\ pc[u] # "idle"
  /\ call[t] = call[u]
  /\ via[t].flag = FALSE /\ via[u].flag = TRUE

\* C23: the connected flag gates nothing: two calls of the same operation
\* with the same arguments, one made with the flag False and one with the
\* flag True, submit the same first venue call; when they have received the
\* same venue outcomes they have made the same venue calls, and when both
\* have finished they have returned the same result.
C23_FlagNeverGates ==
  \A t, u \in Tasks : SameCallOtherFlag(t, u) =>
    /\ venue_calls[t][1] = venue_calls[u][1]
    /\ responses[t] = responses[u] =>
         /\ venue_calls[t] = venue_calls[u]
         /\ (pc[t] = "done" /\ pc[u] = "done") => result[t] = result[u]
         /\ pc[t] # "raised" /\ pc[u] # "raised"

C23_Witness ==
  \E t, u \in Tasks :
    /\ SameCallOtherFlag(t, u)
    /\ call[t].op = "get_ticker"
    /\ pc[t] = "done" /\ pc[u] = "done"
    /\ Len(responses[t]) = 2
    /\ responses[t] = responses[u]
    /\ result[t] = result[u]
    /\ HasPayload(result[t])

\* ---- C25 ----
\* in this step the coroutine of t's test_connection call is resumed with a
\* response that passes the success check
PassingTest(t) ==
  /\ pc[t] = "ready" /\ pc'[t] # "ready"
  /\ call[t].op = "test_connection"
  /\ future[t].k = "return" /\ Accepted(future[t].v)

\* C25: the connected flag is false at construction, becomes true in exactly
\* the steps in which a test_connection call passes its success check, and
\* is never set back: in every reachable state, under every interleaving of
\* the callers, it is true exactly when some test_connection call has passed
\* since construction, and a later failed test_connection leaves it true.
C25_FlagHistory ==
  /\ ~is_connected
  /\ [][/\ is_connected => is_connected'
        /\ (\E t \in Tasks : PassingTest(t)) => is_connected'
        /\ (~is_connected /\ is_connected') => \E t \in Tasks : PassingTest(t)]_vars

C25_Witness ==
  \E t, u \in Tasks :
    /\ t # u
    /\ is_connected
    /\ Finished(t, "test_connection") /\ via[t].flag = TRUE
    /\ responses[t][1] = Raise("Connection timed out")
    /\ result[t] = PyFalse
    /\ pc[u] = "ready" /\ call[u].op = "test_connection"

\* ---- C22 ----
\* everything the model keeps for the call of task t
Slots(t) ==
  <<pc[t], call[t], request[t], future[t], responses[t], venue_calls[t],
    result[t], log[t], via[t], where[t], runs[t]>>

\* the same after the step
SlotsNext(t) ==
  <<pc'[t], call'[t], request'[t], future'[t], responses'[t], venue_calls'[t],
    result'[t], log'[t], via'[t], where'[t], runs'[t]>>

\* C22 (step part): a step of one call leaves everything of the other call
\* as it is; the worker of a call answers that call's own request; a
\* resumed coroutine continues with the outcome of its own venue call and
\* returns what the operation returns for the outcomes of its own calls.
C22_OwnStateOnly ==
  \A t \in Tasks :
    /\ (\E u \in Tasks \ {t} : pc'[u] # pc[u]) => SlotsNext(t) = Slots(t)
    /\ (pc[t] = "waiting" /\ pc'[t] = "ready")
         => future'[t] \in BasicOutcomes(request[t])
    /\ (pc[t] = "ready" /\ pc'[t] # "ready")
         => /\ responses'[t] = Append(responses[t], future[t])
            /\ pc'[t] = "done"
                 => result'[t] = Continue(call[t], responses'[t]).v
            /\ pc'[t] = "waiting"
                 => request'[t] = Continue(call[t], responses'[t]).v

\* C22: concurrent calls on one instance share nothing but the connected
\* flag: under every interleaving each finished call has returned what the
\* operation returns for the venue outcomes of its own requests.
C22_NoSharedState ==
  /\ [](\A t \in Tasks :
          pc[t] = "done" => result[t] = Continue(call[t], responses[t]).v)
  /\ [][C22_OwnStateOnly]_vars

C22_Witness ==
  \E t, u \in Tasks :
    /\ t # u
    /\ pc[t] = "done" /\ pc[u] = "done"
    /\ call[t] = call[u] /\ call[t].op = "get_ticker"
    /\ via[t].t = "await" /\ via[u].t = "await"
    /\ responses[t] # responses[u]
    /\ HasPayload(result[t])
    /\ HasMessage(result[u])

\* ---- C21 ----
\* C21 (state part): after the awaiting caller has given up, the venue call
\* it had dispatched is still running on its worker and can still return or
\* throw.
C21_StillInFlight ==
  \A t \in Tasks : pc[t] = "cancelled" =>
    /\ request[t] # Unset
    /\ request[t] = venue_calls[t][Len(venue_calls[t])]
    /\ where[t] = "worker"
    /\ ENABLED WorkerRunBasic(t)

\* C21 (step part): a venue call that runs on a worker ends in one way only,
\* by the venue client returning or throwing, whether or not its caller has
\* given up.
C21_EndsByOutcomeOnly ==
  \A t \in Tasks :
    (request[t] # Unset /\ request'[t] # request[t])
    => /\ request'[t] = Unset
       /\ future'[t] \in BasicOutcomes(request[t])

\* C21: no operation is cancellable mid-flight: once a venue call runs on a
\* worker it runs to completion or exception, also when the awaiting caller
\* gives up before it finishes.
C21_NotCancellable ==
  [](C21_StillInFlight) /\ [][C21_EndsByOutcomeOnly]_vars

C21_Witness ==
  \E t \in Tasks :
    /\ pc[t] = "dropped"
    /\ call[t].op = "place_order"
    /\ venue_calls[t][1].ep = "place_order"
    /\ future[t] = Return(Envelope(Order))
    /\ result[t] = Unset

\* ---- C26 ----
\* C26 (state part): no deadlock: a *_sync call made where a loop is running
\* never waits for the loop it blocks. While its venue call is outstanding
\* the worker can finish it, and once the worker has finished the fresh loop
\* can resume the coroutine, also when the caller is the server's loop
\* thread and so keeps that loop from running.
C26_NoDeadlock ==
  \A t \in Tasks : SyncInLoop(t) =>
    /\ pc[t] \in {"waiting", "ready", "done"}
    /\ via[t].on = "thread"
    /\ pc[t] = "waiting" => ENABLED WorkerRunBasic(t)
    /\ pc[t] = "ready" => ENABLED Resume(t)

\* C26: a *_sync call made while an event loop is running in the calling
\* thread always terminates, provided the venue call returns or throws.
C26_SyncTerminates ==
  /\ [](C26_NoDeadlock)
  /\ \A t \in Tasks :
       (SyncInLoop(t) /\ pc[t] \in {"waiting", "ready"}) ~> (pc[t] = "done")

C26_Witness ==
  \E t \in Tasks :
    /\ SyncInLoop(t)
    /\ via[t].thread = "main"
    /\ MainBlocked
    /\ pc[t] = "ready"
    /\ call[t].op = "get_ticker"
    /\ Len(responses[t]) = 1
    /\ ENABLED Resume(t)

====
